---- MODULE Spec2Model ----
(***************************************************************************)
(* A model of the document ingestion pipeline of drdo_group1:              *)
(*   - chunk_text, the sliding-window chunker of extract_clean_chunk.py,   *)
(*     one action per loop iteration (specification Spec);                 *)
(*   - the path of one document through main of extract_clean_chunk.py:    *)
(*     extraction, normalize_whitespace, remove_common_headers_footers,    *)
(*     chunk_text (specification SpecNormalize);                           *)
(*   - the pipeline run twice over the same files: main of                 *)
(*     extract_clean_chunk.py over a manifest, then main of                *)
(*     03_embed_and_store.py over chunks.jsonl (specification              *)
(*     SpecPipeline);                                                      *)
(*   - the embedding step of chatbot.py with get_embedding's retry loop    *)
(*     (specification SpecChatbot).                                        *)
(* Strings are sequences of one-character strings; offsets are 0-based as  *)
(* in the Python source, so text[a:b] is SubSeq(text, a + 1, b).           *)
(***************************************************************************)
EXTENDS Integers, Sequences, FiniteSets, TLC

VARIABLES
    text,        \* chunk_text: the argument `text`
    chunk_size,  \* chunk_text: the argument `chunk_size` (the spec's target_size)
    overlap_in,  \* chunk_text: the argument `overlap` as passed by the caller
    overlap,     \* chunk_text: the local `overlap` (after the clamp of line 125)
    tail_span,   \* chunk_text: the local `tail_span`
    start,       \* chunk_text: the local `start`
    chunks,      \* chunk_text: the local list `chunks`
    iters,       \* number of times the body of the while loop has been entered
    pc           \* position in chunk_text: "call", "loop", "done"

chunkVars == <<text, chunk_size, overlap_in, overlap, tail_span, start, chunks, iters, pc>>

VARIABLES
    doc_raw,     \* main: the content of the file being processed
    doc_text,    \* main: `text`, what extract_any returned
    text_norm,   \* main: `text_norm`
    text_clean,  \* main: `text_clean`, the string passed to chunk_text
    doc_chunks,  \* main: `chunks`
    npc          \* position in the loop body of main: "extract", "normalize",
                 \* "clean", "chunk", "written", "skipped", "idle"

normVars == <<doc_raw, doc_text, text_norm, text_clean, doc_chunks, npc>>

VARIABLES
    files,        \* the files the manifest lists, in manifest order
    args,         \* the command lines: chunk_size, overlap, batch_size, reset
    run,          \* which run of the pipeline is under way (1, 2, ...)
    ppc,          \* position: "open", "docs", "embed", "lines", "done", "idle"
    doc_i,        \* extract main: the loop index `i` over the manifest
    out_f,        \* chunks.jsonl: the records written
    warnings,     \* the files a "[WARN] ... failed" line was logged for
    next_uuid,    \* the number of uuid4() values drawn so far
    coll,         \* the Chroma collection kept in the persist directory
    existing_ids, \* embed main: `existing_ids`
    batch,        \* embed main: the lists `ids`, `docs`, `metas`, as records
    line_no,      \* embed main: the loop index `i` over the lines of chunks.jsonl
    first_coll    \* the collection as the first run left it

pipeVars == <<files, args, run, ppc, doc_i, out_f, warnings, next_uuid, coll,
              existing_ids, batch, line_no, first_coll>>

VARIABLES
    chunk_files, \* chatbot.py: the contents of the files of `batch_files`
    file_k,      \* chatbot.py: position of the loop over batch_files (1-based)
    attempt,     \* get_embedding: `attempt`
    delay,       \* get_embedding: `delay`
    slept,       \* the seconds spent in time.sleep so far
    csv_rows,    \* the rows written to the CSV file after its header
    failed,      \* the files for which get_embedding raised after its retries
    bpc          \* position: "files", "embedding", "done", "crashed", "idle"

botVars == <<chunk_files, file_k, attempt, delay, slept, csv_rows, failed, bpc>>

vars == <<chunkVars, normVars, pipeVars, botVars>>

\* what the actions of chunk_text leave alone
notChunk == <<normVars, pipeVars, botVars>>

\* what the actions of one document's path leave alone
notNorm == <<chunkVars, pipeVars, botVars>>

\* what the actions of the pipeline leave alone
notPipe == <<chunkVars, normVars, botVars>>

\* what the actions of chatbot.py leave alone
notBot == <<chunkVars, normVars, pipeVars>>

----------------------------------------------------------------------------
(* Bounds of the model *)

\* longest text handed to chunk_text
MaxLen == 5
\* largest chunk_size; overlaps range over -1 .. MaxSize + 1
MaxSize == 4
\* a look-back window short enough for `len(snippet) > tail_span` to happen
ShortTail == 3

\* most lines of a file's content
MaxLines == 7
\* most files in a manifest
MaxDocs == 2
\* runs of the pipeline over the same files
MaxRuns == 2
\* a --chunk-size small enough to cut the explored documents into several chunks
SmallChunk == 1
\* a --batch-size small enough for a batch to fill before the file ends
SmallBatch == 2
\* most chunk files in the chunk directory
MaxChunkFiles == 3

(* Program constants *)

\* remove_common_headers_footers(text_norm, threshold=5)
THRESHOLD == 5

\* len(ln) < 120
SHORT_LINE == 120

\* \d{1,4}
PAGE_DIGITS == 4

\* --chunk-size, default 1200
DEFAULT_CHUNK_SIZE == 1200

\* --overlap, default 200
DEFAULT_OVERLAP == 200

\* --batch-size, default 256
DEFAULT_BATCH_SIZE == 256

\* get_embedding(..., retries=3, ...)
RETRIES == 3

\* get_embedding(..., delay=2)
DELAY == 2

\* chatbot.py: batch_size = 150
BATCH_SIZE == 150

\* chatbot.py: start_index = 0
START_INDEX == 0

\* tail_span = 120
TAIL_SPAN == 120

----------------------------------------------------------------------------
(* Characters: one representative set per class the code distinguishes *)

\* [.!?] of the boundary regex
Punct == {".", "!", "?"}

\* \s of the boundary regex, and what str.strip() removes
Space == {" ", "\t", "\n", "\r"}

\* [A-Z("'] of the lookahead (the source's class also holds the left curly
\* double quote, which behaves as "(" does)
Opener == {"A", "B", "C", "D", "E", "F", "G", "H", "I", "J", "K", "L", "M",
           "N", "O", "P", "Q", "R", "S", "T", "U", "V", "W", "X", "Y", "Z",
           "(", "\"", "'"}

\* the characters the explored texts are made of
Chars == {".", " ", "A"}

Min(a, b) == IF a <= b THEN a ELSE b

Max(a, b) == IF a >= b THEN a ELSE b

SetMax(S) == CHOOSE x \in S : \A y \in S : y <= x

SetMin(S) == CHOOSE x \in S : \A y \in S : x <= y

\* all sequences over S of length 0 .. n
SeqsUpTo(S, n) == UNION {[1..k -> S] : k \in 0..n}

\* Python's s[a:b] for 0 <= a and any b (slice bounds clipped to the string)
Slice(s, a, b) == SubSeq(s, a + 1, Min(b, Len(s)))

----------------------------------------------------------------------------
(* str.strip() *)

Strip(s) ==
    LET keep == {i \in 1..Len(s) : s[i] \notin Space}
    IN  IF keep = {} THEN <<>> ELSE SubSeq(s, SetMin(keep), SetMax(keep))

----------------------------------------------------------------------------
(* re.search(r"[.!?]\s+(?=[A-Z(...\"'])", tail).end(), or 0 for no match *)

\* last index of the longest run of whitespace that starts at index i + 1
\* (i itself when there is none)
SpaceRunEnd(s, i) ==
    LET stops == {k \in (i + 1)..(Len(s) + 1) : k = Len(s) + 1 \/ s[k] \notin Space}
    IN  SetMin(stops) - 1

\* the match attempted at index i: the punctuation mark, then \s+ taken
\* greedily and given back one character at a time until the lookahead
\* holds; the result is m.end() (0-based, exclusive), 0 when it fails
MatchAt(s, i) ==
    IF s[i] \notin Punct THEN 0
    ELSE LET ends == {k \in (i + 1)..SpaceRunEnd(s, i) :
                         k + 1 <= Len(s) /\ s[k + 1] \in Opener}
         IN  IF ends = {} THEN 0 ELSE SetMax(ends)

\* the leftmost match
SearchEnd(s) ==
    LET hits == {i \in 1..Len(s) : MatchAt(s, i) # 0}
    IN  IF hits = {} THEN 0 ELSE MatchAt(s, SetMin(hits))

----------------------------------------------------------------------------
(* normalize_whitespace, lines 84-103 *)

\* \d of the page-number regex
Digit == {"0", "1", "2", "3", "4", "5", "6", "7", "8", "9"}

\* text.split("\n")
RECURSIVE SplitLines(_)
SplitLines(s) ==
    LET nl == {i \in 1..Len(s) : s[i] = "\n"}
    IN  IF nl = {} THEN <<s>>
        ELSE <<SubSeq(s, 1, SetMin(nl) - 1)>>
                 \o SplitLines(SubSeq(s, SetMin(nl) + 1, Len(s)))

\* "\n".join(lines)
RECURSIVE JoinLines(_)
JoinLines(lines) ==
    IF lines = <<>> THEN <<>>
    ELSE IF Len(lines) = 1 THEN lines[1]
    ELSE lines[1] \o <<"\n">> \o JoinLines(Tail(lines))

\* text.replace("\r\n", "\n")
RECURSIVE ReplaceCRLF(_)
ReplaceCRLF(s) ==
    IF s = <<>> THEN <<>>
    ELSE IF Len(s) >= 2 /\ s[1] = "\r" /\ s[2] = "\n"
    THEN <<"\n">> \o ReplaceCRLF(SubSeq(s, 3, Len(s)))
    ELSE <<s[1]>> \o ReplaceCRLF(Tail(s))

\* text.replace("\r", "\n")
ReplaceCR(s) == [i \in 1..Len(s) |-> IF s[i] = "\r" THEN "\n" ELSE s[i]]

\* re.sub(r"[ \t]+", " ", text)
RECURSIVE CollapseSpaces(_)
CollapseSpaces(s) ==
    IF s = <<>> THEN <<>>
    ELSE IF s[1] \in {" ", "\t"}
    THEN LET rest == {i \in 2..Len(s) : s[i] \notin {" ", "\t"}}
         IN  IF rest = {} THEN <<" ">>
             ELSE <<" ">> \o CollapseSpaces(SubSeq(s, SetMin(rest), Len(s)))
    ELSE <<s[1]>> \o CollapseSpaces(Tail(s))

\* re.fullmatch(r"\d{1,4}", ln)
IsPageNumber(ln) ==
    /\ 1 <= Len(ln)
    /\ Len(ln) <= PAGE_DIGITS
    /\ \A i \in 1..Len(ln) : ln[i] \in Digit

\* lines 93-102: the loop that keeps one blank line of every run
RECURSIVE DropBlankRuns(_, _)
DropBlankRuns(lines, last_blank) ==
    IF lines = <<>> THEN <<>>
    ELSE IF lines[1] = <<>>
    THEN (IF last_blank THEN <<>> ELSE <<lines[1]>>) \o DropBlankRuns(Tail(lines), TRUE)
    ELSE <<lines[1]>> \o DropBlankRuns(Tail(lines), FALSE)

normalize_whitespace(s) ==
    LET t1 == ReplaceCR(ReplaceCRLF(s))
        t2 == CollapseSpaces(t1)
        split == SplitLines(t2)
        lines == [i \in 1..Len(split) |-> Strip(split[i])]
        kept == SelectSeq(lines, LAMBDA ln : ~IsPageNumber(ln))
    IN  Strip(JoinLines(DropBlankRuns(kept, FALSE)))

----------------------------------------------------------------------------
(* remove_common_headers_footers, lines 105-112 *)

\* Counter(...)[ln]
Count(lines, ln) == Cardinality({i \in 1..Len(lines) : lines[i] = ln})

remove_common_headers_footers(s, threshold) ==
    LET lines == SplitLines(s)
        counted == SelectSeq(lines, LAMBDA ln : ln # <<>> /\ Len(ln) < SHORT_LINE)
        common == {counted[i] : i \in {j \in 1..Len(counted) :
                                          Count(counted, counted[j]) >= threshold}}
    IN  IF common = {} THEN s
        ELSE JoinLines(SelectSeq(lines, LAMBDA ln : ln \notin common))

----------------------------------------------------------------------------
(* chunk_text, lines 114-165 *)

\* ClampOverlap without the clamp of lines 123-125
ClampOverlap_none(size, ov) == ov

\* ClampOverlap clamping to half the size instead of a quarter
ClampOverlap_half(size, ov) ==
    IF ov >= size THEN Max(0, size \div 2) ELSE ov

\* lines 123-125
ClampOverlap(size, ov) ==
    IF ov >= size THEN Max(0, size \div 4) ELSE ov

\* line 137
TailOf(snippet, span) ==
    IF Len(snippet) > span
    THEN SubSeq(snippet, Len(snippet) - span + 1, Len(snippet))
    ELSE snippet

\* lines 139-141: the search finds a boundary in the tail of the window
HasMatch(txt, st, naive, span) ==
    SearchEnd(TailOf(Slice(txt, st, naive), span)) # 0

\* ProposedEnd with the lookahead character taken into the match
ProposedEnd_consume(txt, st, naive, span) ==
    LET snippet == Slice(txt, st, naive)
        tail == TailOf(snippet, span)
        mEnd == SearchEnd(tail) + 1
    IN  st + Len(snippet) - (Len(tail) - mEnd)

\* ProposedEnd with the position in the tail taken as a position in the snippet
ProposedEnd_untailed(txt, st, naive, span) ==
    LET snippet == Slice(txt, st, naive)
        tail == TailOf(snippet, span)
        mEnd == SearchEnd(tail)
    IN  st + mEnd

\* line 143: the match's end mapped back to a position in the text
ProposedEnd(txt, st, naive, span) ==
    LET snippet == Slice(txt, st, naive)
        tail == TailOf(snippet, span)
        mEnd == SearchEnd(tail)
    IN  st + Len(snippet) - (Len(tail) - mEnd)

\* lines 141-147: the end after the boundary refinement
RefinedEnd(txt, st, naive, span) ==
    LET proposed_end == ProposedEnd(txt, st, naive, span)
    IN  IF HasMatch(txt, st, naive, span) /\ st < proposed_end /\ proposed_end <= Len(txt)
        THEN proposed_end
        ELSE naive

\* lines 150-152
Fallback(txt, st, e, size) ==
    IF e <= st THEN Min(st + Max(1, size), Len(txt)) ELSE e

\* WindowEnd with the naive end not cut to the length of the text
WindowEnd_nomin(txt, st, size, span) ==
    Fallback(txt, st, RefinedEnd(txt, st, st + size, span), size)

\* line 133
NaiveEnd(txt, st, size) == Min(st + size, Len(txt))

\* lines 133-152: the end of the window that starts at st
WindowEnd(txt, st, size, span) ==
    Fallback(txt, st, RefinedEnd(txt, st, NaiveEnd(txt, st, size), span), size)

\* line 154
Chunk(txt, st, e) ==
    [start |-> st, end |-> e, text |-> Strip(Slice(txt, st, e))]

\* NextStart with the overlap added instead of subtracted
NextStart_plus(st, e, ov) ==
    LET new_start == e + ov
    IN  IF new_start <= st THEN st + 1 ELSE new_start

\* NextStart whose progress guard keeps the old start
NextStart_stuck(st, e, ov) ==
    LET new_start == e - ov
    IN  IF new_start <= st THEN st ELSE new_start

\* NextStart whose progress guard compares with < instead of <=
NextStart_lt(st, e, ov) ==
    LET new_start == e - ov
    IN  IF new_start < st THEN st + 1 ELSE new_start

\* lines 160-163
NextStart(st, e, ov) ==
    LET new_start == e - ov
    IN  IF new_start <= st THEN st + 1 ELSE new_start

\* lines 132-165: the chunks the loop appends from `st` on
RECURSIVE ChunkLoop(_, _, _, _, _)
ChunkLoop(txt, size, ov, span, st) ==
    IF st >= Len(txt) THEN <<>>
    ELSE LET e == WindowEnd(txt, st, size, span)
         IN  IF e >= Len(txt)
             THEN <<Chunk(txt, st, e)>>
             ELSE <<Chunk(txt, st, e)>> \o ChunkLoop(txt, size, ov, span, NextStart(st, e, ov))

\* lines 114-165: the value chunk_text returns
chunk_text(txt, size, ov, span) ==
    IF txt = <<>> THEN <<>>
    ELSE ChunkLoop(txt, size, ClampOverlap(size, ov), span, 0)

----------------------------------------------------------------------------
(* chunk_text as a state machine *)

\* no document is being processed
NormIdle ==
    /\ doc_raw = <<>>
    /\ doc_text = <<>>
    /\ text_norm = <<>>
    /\ text_clean = <<>>
    /\ doc_chunks = <<>>
    /\ npc = "idle"

\* the pipeline is not running
PipeIdle ==
    /\ files = <<>>
    /\ args = [chunk_size |-> DEFAULT_CHUNK_SIZE, overlap |-> DEFAULT_OVERLAP,
               batch_size |-> DEFAULT_BATCH_SIZE, reset |-> FALSE]
    /\ run = 0
    /\ ppc = "idle"
    /\ doc_i = 0
    /\ out_f = <<>>
    /\ warnings = {}
    /\ next_uuid = 0
    /\ coll = {}
    /\ existing_ids = {}
    /\ batch = <<>>
    /\ line_no = 0
    /\ first_coll = {}

\* chatbot.py is not running
BotIdle ==
    /\ chunk_files = <<>>
    /\ file_k = 0
    /\ attempt = 0
    /\ delay = 0
    /\ slept = 0
    /\ csv_rows = <<>>
    /\ failed = {}
    /\ bpc = "idle"

Init ==
    /\ NormIdle
    /\ PipeIdle
    /\ BotIdle
    /\ text \in SeqsUpTo(Chars, MaxLen)
    /\ chunk_size \in 0..MaxSize
    /\ overlap_in \in (-1)..(MaxSize + 1)
    /\ tail_span \in {ShortTail, TAIL_SPAN}
    /\ overlap = overlap_in
    /\ start = 0
    /\ chunks = <<>>
    /\ iters = 0
    /\ pc = "call"

\* lines 120-121: an empty text returns []
ReturnEmpty ==
    /\ pc = "call"
    /\ text = <<>>
    /\ pc' = "done"
    /\ UNCHANGED <<text, chunk_size, overlap_in, overlap, tail_span, start, chunks, iters>>
    /\ UNCHANGED notChunk

\* lines 123-130
Enter ==
    /\ pc = "call"
    /\ text # <<>>
    /\ overlap' = ClampOverlap(chunk_size, overlap)
    /\ start' = 0
    /\ chunks' = <<>>
    /\ pc' = "loop"
    /\ UNCHANGED <<text, chunk_size, overlap_in, tail_span, iters>>
    /\ UNCHANGED notChunk

\* lines 132-163, an iteration that goes round again
Advance ==
    /\ pc = "loop"
    /\ start < Len(text)
    /\ LET end == WindowEnd(text, start, chunk_size, tail_span)
       IN  /\ end < Len(text)
           /\ chunks' = Append(chunks, Chunk(text, start, end))
           /\ start' = NextStart(start, end, overlap)
    /\ iters' = iters + 1
    /\ UNCHANGED <<text, chunk_size, overlap_in, overlap, tail_span, pc>>
    /\ UNCHANGED notChunk

\* lines 132-157, the iteration that ends with `break`
Break ==
    /\ pc = "loop"
    /\ start < Len(text)
    /\ LET end == WindowEnd(text, start, chunk_size, tail_span)
       IN  /\ end >= Len(text)
           /\ chunks' = Append(chunks, Chunk(text, start, end))
    /\ iters' = iters + 1
    /\ pc' = "done"
    /\ UNCHANGED <<text, chunk_size, overlap_in, overlap, tail_span, start>>
    /\ UNCHANGED notChunk

\* line 132 false, then line 165
Exhausted ==
    /\ pc = "loop"
    /\ start >= Len(text)
    /\ pc' = "done"
    /\ UNCHANGED <<text, chunk_size, overlap_in, overlap, tail_span, start, chunks, iters>>
    /\ UNCHANGED notChunk

Next == ReturnEmpty \/ Enter \/ Advance \/ Break \/ Exhausted

Spec == Init /\ [][Next]_vars

----------------------------------------------------------------------------
(* One document's path through the loop body of main, lines 215-233 *)

\* chunk_text is not being run on its own
ChunkIdle ==
    /\ text = <<>>
    /\ chunk_size = 0
    /\ overlap_in = 0
    /\ overlap = 0
    /\ tail_span = TAIL_SPAN
    /\ start = 0
    /\ chunks = <<>>
    /\ iters = 0
    /\ pc = "idle"

\* the lines a file's content is made of: blank, a short line, a page
\* number, a line of blanks and tabs
RawLines == {<<>>, <<"H">>, <<"7">>, <<" ", "\t">>}

\* the line ends of a file's content
LineEnds == {<<"\n">>, <<"\r", "\n">>}

\* the lines joined by the line end `sep`
RECURSIVE JoinWith(_, _)
JoinWith(lines, sep) ==
    IF lines = <<>> THEN <<>>
    ELSE IF Len(lines) = 1 THEN lines[1]
    ELSE lines[1] \o sep \o JoinWith(Tail(lines), sep)

NormInit ==
    /\ ChunkIdle
    /\ PipeIdle
    /\ BotIdle
    /\ doc_raw \in {JoinWith(ls, sep) :
                       ls \in UNION {[1..k -> RawLines] : k \in 1..MaxLines},
                       sep \in LineEnds}
    /\ doc_text = <<>>
    /\ text_norm = <<>>
    /\ text_clean = <<>>
    /\ doc_chunks = <<>>
    /\ npc = "extract"

\* lines 216-221, the extractors' `.strip()` (lines 51, 57, 66, 79): an
\* empty extraction is skipped
ExtractEmpty ==
    /\ npc = "extract"
    /\ Strip(doc_raw) = <<>>
    /\ doc_text' = <<>>
    /\ npc' = "skipped"
    /\ UNCHANGED <<doc_raw, text_norm, text_clean, doc_chunks>>
    /\ UNCHANGED notNorm

\* lines 216-219
Extract ==
    /\ npc = "extract"
    /\ Strip(doc_raw) # <<>>
    /\ doc_text' = Strip(doc_raw)
    /\ npc' = "normalize"
    /\ UNCHANGED <<doc_raw, text_norm, text_clean, doc_chunks>>
    /\ UNCHANGED notNorm

\* line 224
Normalize ==
    /\ npc = "normalize"
    /\ text_norm' = normalize_whitespace(doc_text)
    /\ npc' = "clean"
    /\ UNCHANGED <<doc_raw, doc_text, text_clean, doc_chunks>>
    /\ UNCHANGED notNorm

\* line 228
Clean ==
    /\ npc = "clean"
    /\ text_clean' = remove_common_headers_footers(text_norm, THRESHOLD)
    /\ npc' = "chunk"
    /\ UNCHANGED <<doc_raw, doc_text, text_norm, doc_chunks>>
    /\ UNCHANGED notNorm

\* line 232, with the command line's default sizes
ChunkDoc ==
    /\ npc = "chunk"
    /\ doc_chunks' = chunk_text(text_clean, DEFAULT_CHUNK_SIZE, DEFAULT_OVERLAP, TAIL_SPAN)
    /\ npc' = "written"
    /\ UNCHANGED <<doc_raw, doc_text, text_norm, text_clean>>
    /\ UNCHANGED notNorm

NormNext == ExtractEmpty \/ Extract \/ Normalize \/ Clean \/ ChunkDoc

SpecNormalize == NormInit /\ [][NormNext]_vars

----------------------------------------------------------------------------
(* The extractors, lines 38-82 and 168-180.  A file is                     *)
(*   [exists, ext, parts, fail_at]: parts are the texts the format yields  *)
(* one after the other (the pages of a PDF, the paragraphs of a DOCX, the  *)
(* text nodes of an HTML page, the content of a TXT file); fail_at = k > 0 *)
(* says that reading raises an exception when it comes to part k, after    *)
(* parts 1 .. k-1 were read; fail_at = 0 says that nothing fails.          *)

\* lines 38-51: the pages read before the exception stay in text_parts,
\* and the return statement is outside the try block
extract_text_pdf(f) ==
    LET read == IF f.fail_at = 0 THEN f.parts ELSE SubSeq(f.parts, 1, f.fail_at - 1)
    IN  Strip(JoinLines(read))

\* lines 53-60
extract_text_docx(f) ==
    IF f.fail_at = 0 THEN Strip(JoinLines(f.parts)) ELSE <<>>

\* lines 62-69
extract_text_txt(f) ==
    IF f.fail_at = 0 THEN Strip(JoinLines(f.parts)) ELSE <<>>

\* lines 71-82
extract_text_html(f) ==
    IF f.fail_at = 0 THEN Strip(JoinLines(f.parts)) ELSE <<>>

\* lines 168-180
extract_any(f) ==
    IF f.ext = ".pdf" THEN extract_text_pdf(f)
    ELSE IF f.ext = ".docx" THEN extract_text_docx(f)
    ELSE IF f.ext \in {".txt", ".md"} THEN extract_text_txt(f)
    ELSE IF f.ext \in {".html", ".htm"} THEN extract_text_html(f)
    ELSE <<>>

\* the extractor of the file logs "[WARN] ... failed" (lines 50, 59, 68, 81)
Warns(f) ==
    /\ f.ext \in {".pdf", ".docx", ".txt", ".md", ".html", ".htm"}
    /\ f.fail_at # 0

----------------------------------------------------------------------------
(* The pipeline: extract_clean_chunk.py main, then 03_embed_and_store.py   *)
(* main, run again over the same files                                     *)

\* what the parts of a file may be
Contents == {<<<<" ">>>>, <<<<"A">>>>, <<<<"A">>, <<"B">>>>}

\* the file types of the explored manifests
Exts == {".pdf", ".docx", ".txt", ".html", ".zip"}

\* a manifest entry whose file is gone
MissingFile == [exists |-> FALSE, ext |-> ".txt", parts |-> <<>>, fail_at |-> 0]

\* the files a manifest may list
Files ==
    {MissingFile} \cup
    UNION {[exists : {TRUE}, ext : Exts, parts : {c}, fail_at : 0..Len(c)] : c \in Contents}

\* the command lines explored
CliArgs ==
    [chunk_size : {SmallChunk, DEFAULT_CHUNK_SIZE},
     overlap : {0, DEFAULT_OVERLAP},
     batch_size : {SmallBatch, DEFAULT_BATCH_SIZE},
     reset : BOOLEAN]

PipeInit ==
    /\ ChunkIdle
    /\ NormIdle
    /\ BotIdle
    /\ files \in UNION {[1..k -> Files] : k \in 0..MaxDocs}
    /\ args \in CliArgs
    /\ run = 1
    /\ ppc = "open"
    /\ doc_i = 0
    /\ out_f = <<>>
    /\ warnings = {}
    /\ next_uuid = 0
    /\ coll = {}
    /\ existing_ids = {}
    /\ batch = <<>>
    /\ line_no = 0
    /\ first_coll = {}

\* lines 235-248: the records of one file's chunks; uuid4() is modelled as
\* a value never drawn before (the next of a counter)
Records(path, ext, cs, uuid0) ==
    [idx \in 1..Len(cs) |->
        [id |-> uuid0 + idx,
         text |-> cs[idx].text,
         metadata |-> [source_path |-> path, ext |-> ext, chunk_index |-> idx - 1,
                       start_char |-> cs[idx].start, end_char |-> cs[idx].end]]]

\* lines 223-232: the chunks of an extracted text
ChunksOf(txt) ==
    chunk_text(remove_common_headers_footers(normalize_whitespace(txt), THRESHOLD),
               args.chunk_size, args.overlap, TAIL_SPAN)

\* lines 200-204: chunks.jsonl is opened for writing, which empties it
OpenOut ==
    /\ ppc = "open"
    /\ out_f' = <<>>
    /\ doc_i' = 1
    /\ warnings' = {}
    /\ ppc' = "docs"
    /\ UNCHANGED <<files, args, run, next_uuid, coll, existing_ids, batch, line_no, first_coll>>
    /\ UNCHANGED notPipe

\* lines 205-213: the file is gone
SkipMissing ==
    /\ ppc = "docs"
    /\ doc_i <= Len(files)
    /\ ~files[doc_i].exists
    /\ doc_i' = doc_i + 1
    /\ UNCHANGED <<files, args, run, ppc, out_f, warnings, next_uuid, coll,
                   existing_ids, batch, line_no, first_coll>>
    /\ UNCHANGED notPipe

\* lines 205-221: nothing was extracted
SkipEmptyDoc ==
    /\ ppc = "docs"
    /\ doc_i <= Len(files)
    /\ files[doc_i].exists
    /\ extract_any(files[doc_i]) = <<>>
    /\ warnings' = IF Warns(files[doc_i]) THEN warnings \cup {doc_i} ELSE warnings
    /\ doc_i' = doc_i + 1
    /\ UNCHANGED <<files, args, run, ppc, out_f, next_uuid, coll,
                   existing_ids, batch, line_no, first_coll>>
    /\ UNCHANGED notPipe

\* lines 205-250: the file's chunks are written
WriteChunks ==
    /\ ppc = "docs"
    /\ doc_i <= Len(files)
    /\ files[doc_i].exists
    /\ extract_any(files[doc_i]) # <<>>
    /\ warnings' = IF Warns(files[doc_i]) THEN warnings \cup {doc_i} ELSE warnings
    /\ LET cs == ChunksOf(extract_any(files[doc_i]))
       IN  /\ out_f' = out_f \o Records(doc_i, files[doc_i].ext, cs, next_uuid)
           /\ next_uuid' = next_uuid + Len(cs)
    /\ doc_i' = doc_i + 1
    /\ UNCHANGED <<files, args, run, ppc, coll, existing_ids, batch, line_no, first_coll>>
    /\ UNCHANGED notPipe

\* lines 252-253: the manifest is done; 03_embed_and_store.py starts
\* (lines 53-73): --reset deletes the collection, existing_ids is empty
StartEmbed ==
    /\ ppc = "docs"
    /\ doc_i > Len(files)
    /\ coll' = IF args.reset THEN {} ELSE coll
    /\ existing_ids' = {}
    /\ batch' = <<>>
    /\ line_no' = 1
    /\ ppc' = "lines"
    /\ UNCHANGED <<files, args, run, doc_i, out_f, warnings, next_uuid, first_coll>>
    /\ UNCHANGED notPipe

\* coll.upsert(ids=ids, documents=docs, metadatas=metas): an entry per id,
\* the entry of an id already there replaced
Upsert(c, recs) ==
    {e \in c : \A k \in 1..Len(recs) : recs[k].id # e.id}
        \cup {recs[k] : k \in 1..Len(recs)}

\* lines 78-85: the batch after one line of chunks.jsonl was read
BatchWith(rec) ==
    IF rec.id \in existing_ids THEN batch ELSE Append(batch, rec)

\* lines 78-87: a line is read and the batch is not full yet
ReadLine ==
    /\ ppc = "lines"
    /\ line_no <= Len(out_f)
    /\ Len(BatchWith(out_f[line_no])) < args.batch_size
    /\ batch' = BatchWith(out_f[line_no])
    /\ line_no' = line_no + 1
    /\ UNCHANGED <<files, args, run, ppc, doc_i, out_f, warnings, next_uuid, coll,
                   existing_ids, first_coll>>
    /\ UNCHANGED notPipe

\* lines 78-91: a line is read, the batch is full and is upserted
ReadLineFlush ==
    /\ ppc = "lines"
    /\ line_no <= Len(out_f)
    /\ Len(BatchWith(out_f[line_no])) >= args.batch_size
    /\ coll' = Upsert(coll, BatchWith(out_f[line_no]))
    /\ batch' = <<>>
    /\ line_no' = line_no + 1
    /\ UNCHANGED <<files, args, run, ppc, doc_i, out_f, warnings, next_uuid,
                   existing_ids, first_coll>>
    /\ UNCHANGED notPipe

\* lines 93-99: the last, partial batch is upserted and the run ends
FinishEmbed ==
    /\ ppc = "lines"
    /\ line_no > Len(out_f)
    /\ coll' = IF batch # <<>> THEN Upsert(coll, batch) ELSE coll
    /\ batch' = <<>>
    /\ first_coll' = IF run = 1 THEN coll' ELSE first_coll
    /\ ppc' = "done"
    /\ UNCHANGED <<files, args, run, doc_i, out_f, warnings, next_uuid, existing_ids, line_no>>
    /\ UNCHANGED notPipe

\* the pipeline is run again over the same files, with the same command lines
RunAgain ==
    /\ ppc = "done"
    /\ run < MaxRuns
    /\ run' = run + 1
    /\ ppc' = "open"
    /\ UNCHANGED <<files, args, doc_i, out_f, warnings, next_uuid, coll, existing_ids,
                   batch, line_no, first_coll>>
    /\ UNCHANGED notPipe

PipeNext ==
    \/ OpenOut \/ SkipMissing \/ SkipEmptyDoc \/ WriteChunks \/ StartEmbed
    \/ ReadLine \/ ReadLineFlush \/ FinishEmbed \/ RunAgain

SpecPipeline == PipeInit /\ [][PipeNext]_vars

----------------------------------------------------------------------------
(* chatbot.py, step 2: the embeddings of one batch of chunk files, lines   *)
(* 117-141, with get_embedding, lines 79-89                                *)

\* what a chunk file may hold
ChunkContents == {<<" ">>, <<"A">>}

\* line 121: chunk_files[start_index : start_index + batch_size]
BatchFiles(fs) == Slice(fs, START_INDEX, START_INDEX + BATCH_SIZE)

BotInit ==
    /\ ChunkIdle
    /\ NormIdle
    /\ PipeIdle
    /\ chunk_files \in UNION {[1..k -> ChunkContents] : k \in 0..MaxChunkFiles}
    /\ file_k = 1
    /\ attempt = 0
    /\ delay = 0
    /\ slept = 0
    /\ csv_rows = <<>>
    /\ failed = {}
    /\ bpc = "files"

\* lines 129-135: a file that is empty after strip() is passed over
SkipEmptyChunk ==
    /\ bpc = "files"
    /\ file_k <= Len(BatchFiles(chunk_files))
    /\ Strip(BatchFiles(chunk_files)[file_k]) = <<>>
    /\ file_k' = file_k + 1
    /\ UNCHANGED <<chunk_files, attempt, delay, slept, csv_rows, failed, bpc>>
    /\ UNCHANGED notBot

\* lines 129-137 and 79-81: get_embedding is called
CallEmbedding ==
    /\ bpc = "files"
    /\ file_k <= Len(BatchFiles(chunk_files))
    /\ Strip(BatchFiles(chunk_files)[file_k]) # <<>>
    /\ attempt' = 0
    /\ delay' = DELAY
    /\ bpc' = "embedding"
    /\ UNCHANGED <<chunk_files, file_k, slept, csv_rows, failed>>
    /\ UNCHANGED notBot

\* lines 81-84 and 138-139: the call of the API returns; the row is written
AttemptSucceeds ==
    /\ bpc = "embedding"
    /\ attempt < RETRIES
    /\ csv_rows' = Append(csv_rows, [filename |-> file_k,
                                      chunk_text |-> Strip(BatchFiles(chunk_files)[file_k])])
    /\ file_k' = file_k + 1
    /\ bpc' = "files"
    /\ UNCHANGED <<chunk_files, attempt, delay, slept, failed>>
    /\ UNCHANGED notBot

\* lines 81-88: the call of the API raises; sleep, then double the delay
AttemptFails ==
    /\ bpc = "embedding"
    /\ attempt < RETRIES
    /\ slept' = slept + delay
    /\ delay' = delay * 2
    /\ attempt' = attempt + 1
    /\ UNCHANGED <<chunk_files, file_k, csv_rows, failed, bpc>>
    /\ UNCHANGED notBot

\* line 89: the attempts are used up and get_embedding raises; nothing
\* around line 137 catches the exception, so the script ends
RetriesExhausted ==
    /\ bpc = "embedding"
    /\ attempt >= RETRIES
    /\ failed' = failed \cup {file_k}
    /\ bpc' = "crashed"
    /\ UNCHANGED <<chunk_files, file_k, attempt, delay, slept, csv_rows>>
    /\ UNCHANGED notBot

\* line 141: the loop over batch_files is over
BatchComplete ==
    /\ bpc = "files"
    /\ file_k > Len(BatchFiles(chunk_files))
    /\ bpc' = "done"
    /\ UNCHANGED <<chunk_files, file_k, attempt, delay, slept, csv_rows, failed>>
    /\ UNCHANGED notBot

BotNext ==
    \/ SkipEmptyChunk \/ CallEmbedding \/ AttemptSucceeds \/ AttemptFails
    \/ RetriesExhausted \/ BatchComplete

SpecChatbot == BotInit /\ [][BotNext]_vars

----------------------------------------------------------------------------
(* Properties of chunk_text *)

\* chunk_text has returned
Returned == pc = "done"

\* consecutive chunks leave no gap
NoGaps == \A i \in 1..(Len(chunks) - 1) : chunks[i + 1].start <= chunks[i].end

\* the chunks cover [0, len(text))
Covers ==
    /\ chunks # <<>>
    /\ chunks[1].start = 0
    /\ chunks[Len(chunks)].end = Len(text)
    /\ NoGaps

\* C1 as stated: for every non-empty text, every chunk_size >= 1 and every
\* integer overlap, the returned chunks cover the text without gaps (first
\* start 0, last end len(text), each next start <= the current end).  Stated
\* for the look-back window of the code, tail_span = 120.
C1_CoverageAnyOverlap ==
    (Returned /\ text # <<>> /\ chunk_size >= 1 /\ tail_span = TAIL_SPAN) => Covers

\* C1 amended: the same for every overlap >= 0.
C1_Coverage ==
    (Returned /\ text # <<>> /\ chunk_size >= 1 /\ overlap_in >= 0) => Covers

\* a run with a positive overlap that returned three chunks or more
C1_Witness ==
    /\ Returned /\ chunk_size >= 1 /\ overlap_in >= 1 /\ overlap_in < chunk_size
    /\ tail_span = TAIL_SPAN
    /\ Len(chunks) >= 3
    /\ Covers

\* C2: for chunk_size > 0 and any overlap the loop body is entered at most
\* len(text) times and at most len(text) chunks are returned, because start
\* has grown by at least 1 for every iteration that went round again.
C2_Termination ==
    chunk_size >= 1 =>
        /\ iters <= Len(text)
        /\ Len(chunks) <= Len(text)
        /\ (pc = "loop" => iters <= start)

\* a run that needed exactly len(text) iterations
C2_Witness ==
    /\ Returned /\ chunk_size >= 1
    /\ Len(text) >= 3
    /\ iters = Len(text)
    /\ Len(chunks) = Len(text)

\* the overlap after the clamp, as the claim states it
ClampedOverlap ==
    IF overlap_in >= chunk_size THEN Max(0, chunk_size \div 4) ELSE overlap_in

\* C3: consecutive chunks overlap by at most max(overlap, 1) characters,
\* overlap being the value after the clamp.
C3_BoundedOverlap ==
    \A i \in 1..(Len(chunks) - 1) :
        chunks[i].end - chunks[i + 1].start <= Max(ClampedOverlap, 1)

\* a run that has both a next start of end - overlap, which attains the
\* bound, and a next start forced to start + 1
C3_Witness ==
    /\ Returned
    /\ ClampedOverlap >= 2
    /\ \E i \in 1..(Len(chunks) - 1) :
           /\ chunks[i].end - ClampedOverlap > chunks[i].start
           /\ chunks[i].end - chunks[i + 1].start = ClampedOverlap
    /\ \E i \in 1..(Len(chunks) - 1) :
           /\ chunks[i].end - ClampedOverlap <= chunks[i].start
           /\ chunks[i + 1].start = chunks[i].start + 1

\* C4: for chunk_size >= 1 every chunk has 0 <= start < end <= len(text)
\* and end - start <= chunk_size.
C4_RangeAndSize ==
    chunk_size >= 1 =>
        \A i \in 1..Len(chunks) :
            /\ 0 <= chunks[i].start
            /\ chunks[i].start < chunks[i].end
            /\ chunks[i].end <= Len(text)
            /\ chunks[i].end - chunks[i].start <= chunk_size

\* a run with a window shortened by the boundary refinement and a chunk
\* whose trimmed text is empty
C4_Witness ==
    /\ Returned /\ chunk_size >= 1
    /\ \E i \in 1..Len(chunks) :
           /\ chunks[i].end < Len(text)
           /\ chunks[i].end - chunks[i].start < chunk_size
    /\ \E i \in 1..Len(chunks) : chunks[i].text = <<>>

\* C5: for chunk_size >= 1 and any overlap the start offsets of the chunks
\* are strictly increasing in list order.
C5_Monotonic ==
    chunk_size >= 1 =>
        \A i \in 1..(Len(chunks) - 1) : chunks[i].start < chunks[i + 1].start

\* a run in which one next start was end - overlap and another was forced
\* to start + 1
C5_Witness ==
    /\ Returned /\ chunk_size >= 1
    /\ \E i \in 1..(Len(chunks) - 1) :
           /\ chunks[i].end - overlap > chunks[i].start
           /\ chunks[i + 1].start = chunks[i].end - overlap
    /\ \E i \in 1..(Len(chunks) - 1) :
           /\ chunks[i].end - overlap <= chunks[i].start
           /\ chunks[i + 1].start = chunks[i].start + 1

\* C6: for chunk_size >= 1 and overlap >= chunk_size, chunk_text returns
\* what it returns for the overlap max(0, chunk_size // 4).
C6_DegenerateOverlap ==
    (Returned /\ chunk_size >= 1 /\ overlap_in >= chunk_size) =>
        chunks = chunk_text(text, chunk_size, Max(0, chunk_size \div 4), tail_span)

\* a run with overlap >= chunk_size >= 4 (clamped to a positive overlap)
\* that returned several chunks
C6_Witness ==
    /\ Returned
    /\ chunk_size >= 4
    /\ overlap_in >= chunk_size
    /\ Len(chunks) >= 2
    /\ chunks[2].start = chunks[1].end - chunk_size \div 4

\* the loop is about to run its body
AtIteration == pc = "loop" /\ start < Len(text)

\* C11: for chunk_size >= 1, in every iteration the naive end is above
\* start, a proposed end that comes from a boundary match lies strictly
\* between start and the naive end, so the guard of line 145 accepts it,
\* and the fallback of lines 150-152 is not taken.
C11_FallbackNeverTaken ==
    (AtIteration /\ chunk_size >= 1) =>
        LET naive == NaiveEnd(text, start, chunk_size)
            proposed_end == ProposedEnd(text, start, naive, tail_span)
            end == RefinedEnd(text, start, naive, tail_span)
        IN  /\ start < naive
            /\ HasMatch(text, start, naive, tail_span) =>
                   /\ start < proposed_end
                   /\ proposed_end < naive
                   /\ end = proposed_end
            /\ start < end
            /\ Fallback(text, start, end, chunk_size) = end

\* an iteration past the first one whose window is longer than the tail
\* and has a boundary match in the tail
C11_Witness ==
    /\ AtIteration /\ chunk_size >= 1
    /\ start > 0
    /\ NaiveEnd(text, start, chunk_size) - start > tail_span
    /\ HasMatch(text, start, NaiveEnd(text, start, chunk_size), tail_span)

\* C12: for chunk_size >= 1 and overlap >= 0 the end offsets of the chunks
\* never decrease in list order.
C12_EndsNonDecreasing ==
    (chunk_size >= 1 /\ overlap_in >= 0) =>
        \A i \in 1..(Len(chunks) - 1) : chunks[i].end <= chunks[i + 1].end

\* a run in which two consecutive chunks share their end offset and a
\* later chunk ends further on
C12_Witness ==
    /\ Returned /\ chunk_size >= 1 /\ overlap_in >= 0
    /\ \E i \in 1..(Len(chunks) - 1) : chunks[i].end = chunks[i + 1].end
    /\ \E i \in 1..(Len(chunks) - 1) : chunks[i].end < chunks[i + 1].end

----------------------------------------------------------------------------
(* Properties of the chunker's input *)

\* no two consecutive empty lines
NoBlankRun(s) ==
    LET lines == SplitLines(s)
    IN  \A i \in 1..(Len(lines) - 1) : ~(lines[i] = <<>> /\ lines[i + 1] = <<>>)

\* no line with text in it occurs `threshold` times or more
NoCommonLine(s, threshold) ==
    LET lines == SplitLines(s)
    IN  \A i \in 1..Len(lines) : lines[i] # <<>> => Count(lines, lines[i]) < threshold

\* C10 as stated: the string main passes to chunk_text has no two
\* consecutive empty lines and no line repeated THRESHOLD times or more.
C10_NormalizedInput ==
    npc \in {"chunk", "written"} =>
        /\ NoBlankRun(text_clean)
        /\ NoCommonLine(text_clean, THRESHOLD)

----------------------------------------------------------------------------
(* Properties of the pipeline *)

\* the records chunks.jsonl holds for the file at manifest position j
RecordsOf(j) == {k \in 1..Len(out_f) : out_f[k].metadata.source_path = j}

\* reading the file at manifest position j raises an exception
ExtractionFails(j) == files[j].exists /\ Warns(files[j])

\* C7 as stated: a document whose extraction raises an exception at any
\* point is reported as a warning, contributes no chunk record, and every
\* later document of the manifest is still processed.
C7_FailureIsolation ==
    (ppc = "docs" /\ doc_i > Len(files)) =>
        \A j \in 1..Len(files) :
            ExtractionFails(j) =>
                /\ j \in warnings
                /\ RecordsOf(j) = {}
                /\ \A k \in (j + 1)..Len(files) :
                       (files[k].exists /\ ~Warns(files[k])
                            /\ ChunksOf(extract_any(files[k])) # <<>>)
                           => RecordsOf(k) # {}

\* an entry of the collection without its id
Content(e) == [text |-> e.text, metadata |-> e.metadata]

\* C8 as stated: after a second run of the pipeline over the same files
\* the collection holds the chunks it held after the first run, and no two
\* entries for the same chunk (source path and chunk index).
C8_IdempotentRerun ==
    (ppc = "done" /\ run >= 2) =>
        /\ {Content(e) : e \in coll} = {Content(e) : e \in first_coll}
        /\ \A e1, e2 \in coll :
               (e1.metadata.source_path = e2.metadata.source_path
                    /\ e1.metadata.chunk_index = e2.metadata.chunk_index) => e1 = e2

----------------------------------------------------------------------------
(* Properties of the embedding step *)

\* the files that have a row in the CSV file
Embedded == {csv_rows[k].filename : k \in 1..Len(csv_rows)}

\* C9 as stated: get_embedding makes at most RETRIES attempts, and when
\* all of them fail the run goes on with the remaining chunks: once the
\* run is over, every chunk file with text in it other than the ones whose
\* embedding failed has its row.
C9_RetryIsBatchLocal ==
    /\ attempt <= RETRIES
    /\ bpc \in {"done", "crashed"} =>
           \A k \in 1..Len(BatchFiles(chunk_files)) :
               (Strip(BatchFiles(chunk_files)[k]) # <<>> /\ k \notin failed)
                   => k \in Embedded

====
